---- MODULE Spec2Model ----
(***************************************************************************)
(* Leave-quota ledger of the SiamIT leave management backend.              *)
(*                                                                         *)
(* State: the LeaveRequest table (leaves), the LeaveUsed table (leaveUsed) *)
(* and, for the interleaved specification, the position of every request   *)
(* handler that is in flight.  Operations: the route handlers of           *)
(* Backend/api/LeaveRequestController.js and the yearly reset of           *)
(* Backend/utils/leaveResetService.js.                                     *)
(*                                                                         *)
(* Times of day are minutes since midnight.  The source computes hours in  *)
(* floating point (sh + sm/60); the time inputs used here have minutes 0   *)
(* or 30, for which that arithmetic is exact.                              *)
(***************************************************************************)
EXTENDS Integers, Sequences, FiniteSets, TLC

\* ---------------------------------------------------------------- bounds
\* ids of the LeaveRequest rows that can exist at the same time
ReqIds == {1, 2}
\* last calendar day used in request inputs (days are 1..MaxDate)
MaxDate == 2
\* cap on days*H + hour of one LeaveUsed row (consumption beyond it is not explored)
MaxUsedUnits == 16
\* cap on the number of times one request row is consumed
MaxConsumed == 2
\* largest entitlement in days, and largest days value of an initial usage row
MaxQuotaDays == 5

\* ------------------------------------------------------- configuration
\* config.business.workingHoursPerDay (Backend/config is not part of src/)
workingHoursPerDay == 8
\* config.business.workingStartHour / workingEndHour
workingStartHour == 9
workingEndHour == 18

\* ------------------------------------------------------------ master data
Users == {"u1", "u2"}
NoUser == "none"
\* User.position
UserPosition == [u \in Users |-> IF u = "u1" THEN "p1" ELSE "p2"]
\* Position.new_year_quota = 0 marks a position for the automatic reset
AutoResetPositions == {"p1"}
\* position p3 has no employees
Positions == {"p1", "p2", "p3"}
NoPosition == "none"

LeaveTypeIds == {"lt1", "lt2", "lt3"}
NoLeaveType == "none"
\* LeaveType.leave_type_en
leave_type_en == [t \in LeaveTypeIds |->
                    IF t = "lt1" THEN "Sick" ELSE IF t = "lt2" THEN "Emergency" ELSE "Vacation"]

\* LeaveQuota rows: (positionId, leaveTypeId) -> quota in days.  Position p1
\* has 1 day of lt1, 1 day of the Emergency type and MaxQuotaDays of lt3;
\* position p2 has no row at all.
NoQuota == -1
LeaveQuota == [p \in Positions, t \in LeaveTypeIds |->
                 IF p = "p1" /\ t = "lt3" THEN MaxQuotaDays
                 ELSE IF p = "p1" THEN 1 ELSE NoQuota]

\* ----------------------------------------------------------------- inputs
NoDate == 0
NoTime == -1
Dates == 1..MaxDate

\* request bodies: <<startDate, endDate, startTime, endTime>>
\*   a day range of MaxDate - 1 days; 13:00-18:00 (5 hours, within working hours)
LeaveInputs ==
  {<<2, MaxDate, NoTime, NoTime>>, <<2, MaxDate, 780, 1080>>}

\* (employee, leave type) pairs of the requests that are created
RequestInputs == {<<"u1", "lt1">>}

Statuses == {"pending", "approved", "rejected"}
\* status values sent to PUT /:id/status ("pending" stands for any invalid value)
StatusInputs == {"approved", "rejected", "pending"}
\* approvalStatus values sent to POST /admin ("cancelled" stands for any other
\* string: the handler stores the value as it comes)
AdminStatusInputs == {"pending", "approved", "rejected", "cancelled"}

\* outcomes of the store calls made by a handler
\*   none       every call succeeds
\*   unresolved resolveLeaveType returns null (its id lookups swallow errors)
\*   usedStore  a LeaveUsed findOne/save throws
\*   leaveStore the LeaveRequest save/delete throws
Faults == {"none", "unresolved", "usedStore", "leaveStore"}

NoLeave == [status |-> "none"]

VARIABLES
  leaves,     \* LeaveRequest table: ReqIds -> row or NoLeave
  leaveUsed,  \* LeaveUsed table: <<user_id, leave_type_id>> -> sequence of rows [days, hour]
  last,       \* the most recent handler call and its response
  rt,         \* bookkeeping of an approve-then-delete round trip
  consumed,   \* per request row: how often updateLeaveUsed added its duration
  procs       \* handlers in flight (interleaved specification only)

vars == <<leaves, leaveUsed, last, rt, consumed, procs>>

\* ------------------------------------------------------------ pure helpers
Max(a, b) == IF a >= b THEN a ELSE b

\* a stored date string that new Date() cannot parse, and the day count that
\* results from it: NaN is neither below 0 nor a count, and is told apart from
\* every count by its own test (isNaN)
BadDate == -1
NaN == 1000000

\* utils.calculateDaysBetween: inclusive day count floor((end - start)/1 day) + 1
calculateDaysBetween(start, end) ==
  IF start = BadDate \/ end = BadDate THEN NaN ELSE end - start + 1

\* calculateDurationDetails that computes end - start without the wrap past
\* midnight
calculateDurationDetailsNoWrap(leave) ==
  LET hourBased == leave.startTime # NoTime /\ leave.endTime # NoTime
      dayBased  == ~hourBased /\ leave.startDate # NoDate /\ leave.endDate # NoDate
      diff      == leave.endTime - leave.startTime
      days      == calculateDaysBetween(leave.startDate, leave.endDate)
      duration  == IF dayBased THEN (IF days < 0 \/ days = NaN THEN 0 ELSE days) ELSE 0
      floorHours == IF hourBased THEN diff \div 60 ELSE 0
      carry     == floorHours >= workingHoursPerDay
  IN [durationType    |-> IF hourBased THEN "hour" ELSE "day",
      duration        |-> duration,
      durationMinutes |-> IF hourBased THEN diff ELSE 0,
      calculatedDays  |-> IF carry THEN duration + (floorHours \div workingHoursPerDay)
                                   ELSE duration,
      calculatedHours |-> IF carry THEN floorHours % workingHoursPerDay ELSE floorHours]

\* calculateDurationDetails(leave); durationMinutes is durationHours * 60 and
\* floorHours is Math.floor(durationHours)
calculateDurationDetails(leave) ==
  LET hourBased == leave.startTime # NoTime /\ leave.endTime # NoTime
      dayBased  == ~hourBased /\ leave.startDate # NoDate /\ leave.endDate # NoDate
      rawDiff   == leave.endTime - leave.startTime
      diff      == IF rawDiff < 0 THEN rawDiff + 24 * 60 ELSE rawDiff
      days      == calculateDaysBetween(leave.startDate, leave.endDate)
      duration  == IF dayBased THEN (IF days < 0 \/ days = NaN THEN 0 ELSE days) ELSE 0
      floorHours == IF hourBased THEN diff \div 60 ELSE 0
      carry     == floorHours >= workingHoursPerDay
  IN [durationType    |-> IF hourBased THEN "hour" ELSE "day",
      duration        |-> duration,
      durationMinutes |-> IF hourBased THEN diff ELSE 0,
      calculatedDays  |-> IF carry THEN duration + (floorHours \div workingHoursPerDay)
                                   ELSE duration,
      calculatedHours |-> IF carry THEN floorHours % workingHoursPerDay ELSE floorHours]

\* leaveUsedRepo.findOne({ user_id, leave_type_id })
NoRow == [days |-> -1, hour |-> -1]
findOneUsed(used, u, t) == IF used[<<u, t>>] = <<>> THEN NoRow ELSE Head(used[<<u, t>>])

\* days*H + hour of the record of (u, t), zero when absent
UsedUnits(used, u, t) ==
  LET row == findOneUsed(used, u, t)
  IN IF row = NoRow THEN 0 ELSE row.days * workingHoursPerDay + row.hour

\* -------------------------------------------------------- ledger operations
\* resolveLeaveType(identifier): the entity id, or NoLeaveType when the lookups
\* find nothing (errors of the id lookups are swallowed, the name search then
\* finds no row for an id)
resolveLeaveType(identifier, fault) ==
  IF identifier \in LeaveTypeIds /\ fault # "unresolved" THEN identifier ELSE NoLeaveType

\* updateLeaveUsed that carries whole working days of the hour field into days
updateLeaveUsedCarry(used, leave, fault) ==
  LET d   == calculateDurationDetails(leave)
      key == <<leave.Repid, leave.leaveType>>
      old == IF used[key] # <<>> THEN used[key][1] ELSE [days |-> 0, hour |-> 0]
      h   == old.hour + d.calculatedHours
      row == [days |-> old.days + d.calculatedDays + (h \div workingHoursPerDay),
              hour |-> h % workingHoursPerDay]
  IN IF fault # "none" \/ (d.calculatedDays = 0 /\ d.calculatedHours = 0) THEN used
     ELSE IF used[key] # <<>> THEN [used EXCEPT ![key][1] = row]
     ELSE [used EXCEPT ![key] = <<row>>]

\* updateLeaveUsed(leave): the LeaveUsed table after the call
updateLeaveUsed(used, leave, fault) ==
  LET leaveTypeEntity == resolveLeaveType(leave.leaveType, fault)
      d   == calculateDurationDetails(leave)
      key == <<leave.Repid, leaveTypeEntity>>
  IN IF leaveTypeEntity = NoLeaveType THEN used
     ELSE IF d.calculatedDays = 0 /\ d.calculatedHours = 0 THEN used
     ELSE IF fault = "usedStore" THEN used
     ELSE IF used[key] # <<>>
       THEN [used EXCEPT ![key][1] = [days |-> @.days + d.calculatedDays,
                                      hour |-> @.hour + d.calculatedHours]]
       ELSE [used EXCEPT ![key] = <<[days |-> d.calculatedDays,
                                    hour |-> d.calculatedHours]>>]

\* the revert block without the floor of 0
revertLeaveUsedNoClamp(used, leave, fault) ==
  LET d   == calculateDurationDetails(leave)
      key == <<leave.Repid, leave.leaveType>>
  IN IF fault # "none" \/ used[key] = <<>> THEN used
     ELSE [used EXCEPT ![key][1] = [days |-> @.days - d.calculatedDays,
                                    hour |-> @.hour - d.calculatedHours]]

\* the revert block that subtracts the days and forgets the hours
revertLeaveUsedDaysOnly(used, leave, fault) ==
  LET d   == calculateDurationDetails(leave)
      key == <<leave.Repid, leave.leaveType>>
  IN IF fault # "none" \/ used[key] = <<>> THEN used
     ELSE [used EXCEPT ![key][1] = [days |-> Max(0, @.days - d.calculatedDays),
                                    hour |-> @.hour]]

\* the revert block of DELETE /:id: the LeaveUsed table after it
revertLeaveUsed(used, leave, fault) ==
  LET leaveTypeEntity == resolveLeaveType(leave.leaveType, fault)
      d   == calculateDurationDetails(leave)
      key == <<leave.Repid, leaveTypeEntity>>
  IN IF leaveTypeEntity = NoLeaveType THEN used
     ELSE IF fault = "usedStore" THEN used
     ELSE IF used[key] # <<>>
       THEN [used EXCEPT ![key][1] = [days |-> Max(0, @.days - d.calculatedDays),
                                      hour |-> Max(0, @.hour - d.calculatedHours)]]
       ELSE used

\* the recomputed duration of the request exceeds the recorded usage in a field
RevertClamps(used, leave) ==
  LET d   == calculateDurationDetails(leave)
      row == findOneUsed(used, leave.Repid, leave.leaveType)
  IN row # NoRow /\ (row.days < d.calculatedDays \/ row.hour < d.calculatedHours)

\* every row of the table stays within the explored range
WithinCap(used) ==
  \A k \in DOMAIN used : \A i \in 1..Len(used[k]) :
    used[k][i].days * workingHoursPerDay + used[k][i].hour <= MaxUsedUnits

\* the record of a handler call: the operation, the request it addressed, its
\* response, and what became of its ledger operation ("applied": consume or
\* revert ran to completion, "skipped": it was abandoned and the failure
\* swallowed, "clamped": a revert that hit the floor of 0 in a field, "none":
\* the handler did not get to one)
Call(op, id, ledger, code) == [op |-> op, id |-> id, ledger |-> ledger, code |-> code]

\* outcome of the ledger operation of a handler that reached it
LedgerOutcome(fault) == IF fault \in {"unresolved", "usedStore"} THEN "skipped" ELSE "applied"
Idle == [phase |-> "idle", id |-> 0, key |-> <<NoUser, NoLeaveType>>, before |-> <<>>]

FreeIds == {i \in ReqIds : leaves[i] = NoLeave}
NewId == CHOOSE i \in FreeIds : \A j \in FreeIds : i <= j

\* ------------------------------------------------------------------ Init
Init ==
  /\ leaves = [i \in ReqIds |-> NoLeave]
  /\ leaveUsed = [k \in Users \X LeaveTypeIds |-> <<>>]
  /\ last = Call("init", 0, "none", "")
  /\ rt = Idle
  /\ consumed = [i \in ReqIds |-> 0]
  /\ procs = <<>>

\* ------------------------------------------------- PUT /:id/status (whole)
\* the checks of the status update without the self-approval check
StatusCodeNoSelfCheck(id, status, approverId, fault) ==
  IF approverId = NoUser THEN "unauthorized"
  ELSE IF status \notin {"approved", "rejected"} THEN "invalid_status"
  ELSE IF leaves[id] = NoLeave THEN "not_found"
  ELSE IF leaves[id].status = "approved" \/ leaves[id].status = "rejected"
    THEN "already_processed"
  ELSE IF fault = "leaveStore" THEN "error"
  ELSE "ok"

\* the checks of the status update without the already-processed check
StatusCodeNoProcessedCheck(id, status, approverId, fault) ==
  IF approverId = NoUser THEN "unauthorized"
  ELSE IF status \notin {"approved", "rejected"} THEN "invalid_status"
  ELSE IF leaves[id] = NoLeave THEN "not_found"
  ELSE IF leaves[id].Repid = approverId THEN "self_approval"
  ELSE IF fault = "leaveStore" THEN "error"
  ELSE "ok"

StatusCode(id, status, approverId, fault) ==
  IF approverId = NoUser THEN "unauthorized"
  ELSE IF status \notin {"approved", "rejected"} THEN "invalid_status"
  ELSE IF leaves[id] = NoLeave THEN "not_found"
  ELSE IF leaves[id].Repid = approverId THEN "self_approval"
  ELSE IF leaves[id].status = "approved" \/ leaves[id].status = "rejected"
    THEN "already_processed"
  ELSE IF fault = "leaveStore" THEN "error"
  ELSE "ok"

\* a status update whose rejection also touches the ledger
StatusLedgerRejectReverts(used, leave, status, fault) ==
  IF status = "approved" THEN updateLeaveUsed(used, leave, fault)
  ELSE revertLeaveUsed(used, leave, fault)

\* the ledger part of the status update: only an approval consumes
StatusLedger(used, leave, status, fault) ==
  IF status = "approved" THEN updateLeaveUsed(used, leave, fault) ELSE used

UpdateStatus(id, status, approverId, fault) ==
  LET code == StatusCode(id, status, approverId, fault)
      passed == code \in {"ok", "error"}
      leave == leaves[id]
      used1 == IF passed THEN StatusLedger(leaveUsed, leave, status, fault) ELSE leaveUsed
      applied == passed /\ status = "approved" /\ LedgerOutcome(fault) = "applied"
  IN /\ WithinCap(used1)
     /\ applied => consumed[id] < MaxConsumed
     /\ leaveUsed' = used1
     /\ leaves' = IF code = "ok" THEN [leaves EXCEPT ![id].status = status] ELSE leaves
     /\ last' = Call(IF status = "approved" THEN "approve"
                      ELSE IF status = "rejected" THEN "reject" ELSE "status",
                      id, IF passed /\ status = "approved" THEN LedgerOutcome(fault) ELSE "none",
                      code)
     /\ consumed' = IF applied THEN [consumed EXCEPT ![id] = @ + 1] ELSE consumed
     /\ rt' = IF code = "ok" /\ applied
                THEN [phase |-> "consumed", id |-> id,
                      key |-> <<leave.Repid, leave.leaveType>>,
                      before |-> leaveUsed[<<leave.Repid, leave.leaveType>>]]
                ELSE Idle
     /\ UNCHANGED procs

\* ------------------------------------------------------- DELETE /:id (whole)
\* a deletion that reverts whatever the status of the request
DeleteLedgerAnyStatus(used, leave, fault) == revertLeaveUsed(used, leave, fault)

\* the ledger part of the deletion: only an approved request is reverted
DeleteLedger(used, leave, fault) ==
  IF leave.status = "approved" THEN revertLeaveUsed(used, leave, fault) ELSE used

DeleteLeave(id, fault) ==
  LET leave == leaves[id]
      found == leave # NoLeave
      used1 == IF found THEN DeleteLedger(leaveUsed, leave, fault) ELSE leaveUsed
      code == IF ~found THEN "not_found"
              ELSE IF fault = "leaveStore" THEN "error" ELSE "ok"
      ledger == IF ~(found /\ leave.status = "approved") THEN "none"
                ELSE IF LedgerOutcome(fault) = "skipped" THEN "skipped"
                ELSE IF RevertClamps(leaveUsed, leave) THEN "clamped" ELSE "applied"
  IN /\ leaveUsed' = used1
     /\ leaves' = IF code = "ok" THEN [leaves EXCEPT ![id] = NoLeave] ELSE leaves
     /\ last' = Call("delete", id, ledger, code)
     /\ rt' = IF code = "ok" /\ fault = "none" /\ rt.phase = "consumed" /\ rt.id = id
                THEN [rt EXCEPT !.phase = "reverted"] ELSE Idle
     /\ consumed' = IF code = "ok" THEN [consumed EXCEPT ![id] = 0] ELSE consumed
     /\ UNCHANGED procs

\* ------------------------------------------------------------ POST / (whole)
MkLeave(repid, leaveType, body, status) ==
  [Repid |-> repid, leaveType |-> leaveType,
   startDate |-> body[1], endDate |-> body[2],
   startTime |-> body[3], endTime |-> body[4], status |-> status]

\* request duration of the creation-time quota check, in minutes
RequestMinutes(body, durationType) ==
  IF durationType = "hour" /\ body[3] # NoTime /\ body[4] # NoTime
    THEN LET diff == body[4] - body[3]
         IN IF diff < 0 THEN diff + 24 * 60 ELSE diff
    ELSE LET reqDays == calculateDaysBetween(body[1], body[2])
         IN (IF reqDays <= 0 THEN 1 ELSE reqDays) * workingHoursPerDay * 60

\* the comparison with an exclusive boundary: a request that uses the
\* entitlement up exactly is denied
QuotaExceededExclusive(used, userId, leaveTypeId, reqMinutes) ==
  LET quota == LeaveQuota[UserPosition[userId], leaveTypeId]
      totalQuotaUnits == quota * workingHoursPerDay
      totalUsedUnits  == UsedUnits(used, userId, leaveTypeId)
  IN totalUsedUnits * 60 + reqMinutes >= totalQuotaUnits * 60

\* the comparison of the creation-time quota check
QuotaExceeded(used, userId, leaveTypeId, reqMinutes) ==
  LET quota == LeaveQuota[UserPosition[userId], leaveTypeId]
      totalQuotaUnits == quota * workingHoursPerDay
      totalUsedUnits  == UsedUnits(used, userId, leaveTypeId)
  IN totalUsedUnits * 60 + reqMinutes > totalQuotaUnits * 60

\* the checks of the creation without the exemption of the Emergency type
CreateCodeNoExemption(userId, leaveType, body, durationType, today, fault) ==
  LET leaveTypeEntity == resolveLeaveType(leaveType, fault)
  IN IF userId = NoUser THEN "unauthorized"
     ELSE IF leaveTypeEntity = NoLeaveType THEN "error"
     ELSE IF LeaveQuota[UserPosition[userId], leaveTypeEntity] = NoQuota THEN "no_quota"
     ELSE IF fault = "usedStore" THEN "error"
     ELSE IF QuotaExceeded(leaveUsed, userId, leaveTypeEntity,
                           RequestMinutes(body, durationType))
       THEN "quota_exceeded"
     ELSE IF body[3] # NoTime /\ body[4] # NoTime /\ body[3] = body[4] THEN "bad_time"
     ELSE IF body[3] # NoTime /\ body[4] # NoTime
             /\ (body[3] < workingStartHour * 60 \/ body[4] > workingEndHour * 60)
       THEN "bad_time"
     ELSE IF body[1] # NoDate /\ body[1] < today THEN "backdated"
     ELSE IF fault = "leaveStore" THEN "error"
     ELSE "created"

\* the checks of the creation that skip the quota check when the position has
\* no LeaveQuota row for the leave type
CreateCodeSilentAllow(userId, leaveType, body, durationType, today, fault) ==
  LET leaveTypeEntity == resolveLeaveType(leaveType, fault)
      exempt == leave_type_en[leaveTypeEntity] = "Emergency"
             \/ LeaveQuota[UserPosition[userId], leaveTypeEntity] = NoQuota
  IN IF userId = NoUser THEN "unauthorized"
     ELSE IF leaveTypeEntity = NoLeaveType THEN "error"
     ELSE IF ~exempt /\ fault = "usedStore" THEN "error"
     ELSE IF ~exempt /\ QuotaExceeded(leaveUsed, userId, leaveTypeEntity,
                                      RequestMinutes(body, durationType))
       THEN "quota_exceeded"
     ELSE IF body[3] # NoTime /\ body[4] # NoTime /\ body[3] = body[4] THEN "bad_time"
     ELSE IF body[3] # NoTime /\ body[4] # NoTime
             /\ (body[3] < workingStartHour * 60 \/ body[4] > workingEndHour * 60)
       THEN "bad_time"
     ELSE IF body[1] # NoDate /\ body[1] < today /\ ~exempt THEN "backdated"
     ELSE IF fault = "leaveStore" THEN "error"
     ELSE "created"

CreateCode(userId, leaveType, body, durationType, today, fault) ==
  LET leaveTypeEntity == resolveLeaveType(leaveType, fault)
      exempt == leave_type_en[leaveTypeEntity] = "Emergency"
  IN IF userId = NoUser THEN "unauthorized"
     ELSE IF leaveTypeEntity = NoLeaveType THEN "error"
     ELSE IF ~exempt /\ LeaveQuota[UserPosition[userId], leaveTypeEntity] = NoQuota
       THEN "no_quota"
     ELSE IF ~exempt /\ fault = "usedStore" THEN "error"
     ELSE IF ~exempt /\ QuotaExceeded(leaveUsed, userId, leaveTypeEntity,
                                      RequestMinutes(body, durationType))
       THEN "quota_exceeded"
     ELSE IF body[3] # NoTime /\ body[4] # NoTime /\ body[3] = body[4] THEN "bad_time"
     ELSE IF body[3] # NoTime /\ body[4] # NoTime
             /\ (body[3] < workingStartHour * 60 \/ body[4] > workingEndHour * 60)
       THEN "bad_time"
     ELSE IF body[1] # NoDate /\ body[1] < today /\ ~exempt THEN "backdated"
     ELSE IF fault = "leaveStore" THEN "error"
     ELSE "created"

CreateLeave(userId, leaveType, body, durationType, today, fault) ==
  LET code == CreateCode(userId, leaveType, body, durationType, today, fault)
      stored == IF durationType = "hour" THEN body
                ELSE <<body[1], body[2], NoTime, NoTime>>
  IN /\ FreeIds # {}
     /\ leaves' = IF code = "created"
                    THEN [leaves EXCEPT ![NewId] = MkLeave(userId, leaveType, stored, "pending")]
                    ELSE leaves
     /\ last' = Call("create", IF code = "created" THEN NewId ELSE 0, "none", code)
     /\ rt' = Idle
     /\ UNCHANGED <<leaveUsed, consumed, procs>>

\* ------------------------------------------------------- POST /admin (whole)
AdminCreate(repid, leaveType, body, approvalStatus, fault) ==
  LET leaveTypeEntity == resolveLeaveType(leaveType, fault)
      code == IF repid = NoUser \/ leaveType = NoLeaveType THEN "validation"
              ELSE IF leaveTypeEntity = NoLeaveType THEN "not_found"
              ELSE IF fault = "leaveStore" THEN "error"
              ELSE "created"
      saved == MkLeave(repid, leaveTypeEntity, body, approvalStatus)
      used1 == IF code = "created" /\ approvalStatus = "approved"
                 THEN updateLeaveUsed(leaveUsed, saved, fault) ELSE leaveUsed
  IN /\ FreeIds # {}
     /\ WithinCap(used1)
     /\ leaves' = IF code = "created" THEN [leaves EXCEPT ![NewId] = saved] ELSE leaves
     /\ leaveUsed' = used1
     /\ last' = Call("admin", IF code = "created" THEN NewId ELSE 0,
                      IF code = "created" /\ approvalStatus = "approved"
                        THEN LedgerOutcome(fault) ELSE "none",
                      code)
     /\ rt' = IF code = "created" /\ approvalStatus = "approved" /\ fault = "none"
                THEN [phase |-> "consumed", id |-> NewId,
                      key |-> <<repid, leaveTypeEntity>>,
                      before |-> leaveUsed[<<repid, leaveTypeEntity>>]]
                ELSE Idle
     /\ consumed' = IF code = "created" /\ approvalStatus = "approved"
                         /\ LedgerOutcome(fault) = "applied"
                      THEN [consumed EXCEPT ![NewId] = 1] ELSE consumed
     /\ UNCHANGED procs

\* ----------------------------------------------------------- PUT /:id (whole)
EditLeave(id, leaveType, body, today, fault) ==
  LET leave == leaves[id]
      code == IF leave = NoLeave THEN "not_found"
              ELSE IF leave.startDate # NoDate /\ leave.startDate <= today THEN "started"
              ELSE IF fault = "leaveStore" THEN "error"
              ELSE "ok"
  IN /\ leaves' = IF code = "ok"
                    THEN [leaves EXCEPT ![id] =
                            MkLeave(leave.Repid,
                                    IF leaveType = NoLeaveType THEN leave.leaveType ELSE leaveType,
                                    body, leave.status)]
                    ELSE leaves
     /\ last' = Call("edit", id, "none", code)
     /\ rt' = Idle
     /\ UNCHANGED <<leaveUsed, consumed, procs>>

\* ------------------------------------------------- executeResetLogic (whole)
\* The Position table is maintained outside the modelled routes: a reset finds
\* the set of positions flagged for the automatic reset (new_year_quota = 0)
\* as it is at the time of the call.
FlaggedInputs == {{}, AutoResetPositions, {"p3"}}

ResetScope(positionId, flagged) ==
  IF positionId = NoPosition THEN flagged
  ELSE IF positionId \in Positions THEN {positionId} ELSE {}

ResetUsers(positionId, flagged) ==
  {u \in Users : UserPosition[u] \in ResetScope(positionId, flagged)}

\* the strategy of a call that names none: the destructuring default of
\* "strategy = 'zero'" in executeResetLogic and in POST /reset
NoStrategy == "omitted"
StrategyInputs == {"zero", "delete", NoStrategy}

\* a default that deletes
DefaultStrategyDelete(strategy) == IF strategy = NoStrategy THEN "delete" ELSE strategy

DefaultStrategy(strategy) == IF strategy = NoStrategy THEN "zero" ELSE strategy

\* a strategy that ignores the scope
executeResetStrategyAll(used, userIds, strategy) ==
  [k \in DOMAIN used |->
     IF strategy = "delete" THEN <<>>
     ELSE [i \in 1..Len(used[k]) |-> [days |-> 0, hour |-> 0]]]

executeResetStrategy(used, userIds, strategy) ==
  [k \in DOMAIN used |->
     IF k[1] \notin userIds THEN used[k]
     ELSE IF strategy = "delete" THEN <<>>
     ELSE [i \in 1..Len(used[k]) |-> [days |-> 0, hour |-> 0]]]

\* the checks of the reset without the date guard
ResetCodeNoGuard(force, isJanFirst, positionId, flagged, fault) ==
  IF positionId # NoPosition /\ positionId \notin Positions THEN "position_not_found"
  ELSE IF ResetScope(positionId, flagged) = {} THEN "noop_positions"
  ELSE IF ResetUsers(positionId, flagged) = {} THEN "noop_users"
  ELSE IF fault = "usedStore" THEN "error"
  ELSE "ok"

\* the checks of the reset that treat an empty scope as an error
ResetCodeEmptyIsError(force, isJanFirst, positionId, flagged, fault) ==
  IF ~force /\ ~isJanFirst THEN "not_jan_first"
  ELSE IF positionId # NoPosition /\ positionId \notin Positions THEN "position_not_found"
  ELSE IF ResetScope(positionId, flagged) = {} THEN "error"
  ELSE IF ResetUsers(positionId, flagged) = {} THEN "error"
  ELSE IF fault = "usedStore" THEN "error"
  ELSE "ok"

\* outcome of executeResetLogic: "not_jan_first" and "position_not_found" are
\* thrown errors, the two "noop" outcomes return success with zero rows
ResetCode(force, isJanFirst, positionId, flagged, fault) ==
  IF ~force /\ ~isJanFirst THEN "not_jan_first"
  ELSE IF positionId # NoPosition /\ positionId \notin Positions THEN "position_not_found"
  ELSE IF ResetScope(positionId, flagged) = {} THEN "noop_positions"
  ELSE IF ResetUsers(positionId, flagged) = {} THEN "noop_users"
  ELSE IF fault = "usedStore" THEN "error"
  ELSE "ok"

ResetLeave(force, isJanFirst, strategy, positionId, flagged, fault) ==
  LET code == ResetCode(force, isJanFirst, positionId, flagged, fault)
  IN /\ leaveUsed' = IF code = "ok"
                       THEN executeResetStrategy(leaveUsed, ResetUsers(positionId, flagged),
                                                 DefaultStrategy(strategy))
                       ELSE leaveUsed
     /\ last' = Call("reset", 0, IF code = "ok" THEN DefaultStrategy(strategy) ELSE "none", code)
     /\ rt' = Idle
     /\ UNCHANGED <<leaves, consumed, procs>>

\* ------------------------------------------------------ POST /reset (whole)
\* outcome of the route: "not_jan_first" is a validation error (400),
\* "position_not_found" a 404, the two "noop" outcomes are success responses
PostResetCode(force, isJanFirst, positionId, flagged) ==
  IF ~force /\ ~isJanFirst THEN "not_jan_first"
  ELSE IF positionId # NoPosition /\ positionId \notin Positions THEN "position_not_found"
  ELSE IF ResetScope(positionId, flagged) = {} THEN "noop_positions"
  ELSE IF ResetUsers(positionId, flagged) = {} THEN "noop_users"
  ELSE "ok"

PostReset(force, isJanFirst, strategy, positionId, flagged) ==
  LET code == PostResetCode(force, isJanFirst, positionId, flagged)
  IN /\ leaveUsed' = IF code = "ok"
                       THEN executeResetStrategy(leaveUsed, ResetUsers(positionId, flagged),
                                                 DefaultStrategy(strategy))
                       ELSE leaveUsed
     /\ last' = Call("reset_route", 0, IF code = "ok" THEN DefaultStrategy(strategy) ELSE "none",
                     code)
     /\ rt' = Idle
     /\ UNCHANGED <<leaves, consumed, procs>>

\* ------------------------------------------------- yearly cron job (whole)
\* startServer calls scheduler.registerScheduledJobs(config): the second
\* parameter of registerScheduledJobs(config, AppDataSource) gets no argument,
\* so the data source the cron callback closes over is undefined.
Undefined == "undefined"
SchedulerDataSource == Undefined

\* outcome of the cron callback's executeResetLogic(AppDataSource, { force:
\* false, strategy: 'zero' }): createQueryRunner on undefined is a TypeError,
\* which the callback catches and logs like every other error of the reset.
\* isJanFirst is the date guard's reading of the server's local date when the
\* job fires at 00:05 on 1 January of the cron timezone.
CronCode(dataSource, isJanFirst, flagged) ==
  IF dataSource = Undefined THEN "type_error"
  ELSE ResetCode(FALSE, isJanFirst, NoPosition, flagged, "none")

CronFire(isJanFirst, flagged) ==
  LET code == CronCode(SchedulerDataSource, isJanFirst, flagged)
  IN /\ leaveUsed' = IF code = "ok"
                       THEN executeResetStrategy(leaveUsed, ResetUsers(NoPosition, flagged),
                                                 "zero")
                       ELSE leaveUsed
     /\ last' = Call("cron", 0, "none", code)
     /\ rt' = Idle
     /\ UNCHANGED <<leaves, consumed, procs>>

\* ------------------------------------------------------------------- Next
TodayInputs == 1..(MaxDate + 1)
PositionInputs == Positions \cup {NoPosition, "p9"}

\* calls that create, approve, reject and delete requests, with the store
\* outcomes drawn from F
RequestCalls(F) ==
  \/ \E ut \in RequestInputs, b \in LeaveInputs, dt \in {"day", "hour"}, today \in TodayInputs,
        f \in F \ {"unresolved"} :
       CreateLeave(ut[1], ut[2], b, dt, today, f)
  \/ \E ut \in {<<NoUser, "lt1">>, <<"u2", "lt1">>, <<"u1", NoLeaveType>>}, b \in LeaveInputs :
       CreateLeave(ut[1], ut[2], b, "day", 1, "none")
  \/ \E ut \in RequestInputs \cup {<<NoUser, "lt1">>}, b \in LeaveInputs,
        st \in AdminStatusInputs, f \in F :
       AdminCreate(ut[1], ut[2], b, st, f)
  \/ \E id \in ReqIds, st \in {"approved", "rejected"}, a \in Users, f \in F :
       UpdateStatus(id, st, a, f)
  \/ \E id \in ReqIds, x \in {<<"approved", NoUser>>, <<"rejected", NoUser>>, <<"pending", "u2">>} :
       UpdateStatus(id, x[1], x[2], "none")
  \/ \E id \in ReqIds, f \in F : DeleteLeave(id, f)

\* every store call succeeds
Next ==
  \/ RequestCalls({"none"})
  \/ \E id \in ReqIds, b \in LeaveInputs, today \in TodayInputs :
       EditLeave(id, NoLeaveType, b, today, "none")
  \/ \E force \in BOOLEAN, jan \in BOOLEAN, s \in {"zero", "delete"}, p \in PositionInputs,
        fl \in FlaggedInputs :
       ResetLeave(force, jan, s, p, fl, "none")

Spec == Init /\ [][Next]_vars

\* the request calls when store calls may fail
FaultNext == RequestCalls(Faults)
FaultSpec == Init /\ [][FaultNext]_vars

\* ------------------------------------------- resets over a range of usage
\* The two entry points of the yearly reset applied to recorded usage of both
\* employees: every LeaveUsed key starts with no record or one of ResetRows.
ResetRows == {[days |-> 0, hour |-> 0], [days |-> 1, hour |-> 5]}

ResetInit ==
  /\ leaves = [i \in ReqIds |-> NoLeave]
  /\ \E rows \in [{<<"u1", "lt1">>, <<"u1", "lt2">>, <<"u2", "lt1">>}
                     -> {<<>>} \cup {<<r>> : r \in ResetRows}] :
       leaveUsed = [k \in Users \X LeaveTypeIds |->
                      IF k \in DOMAIN rows THEN rows[k] ELSE <<>>]
  /\ last = Call("init", 0, "none", "")
  /\ rt = Idle
  /\ consumed = [i \in ReqIds |-> 0]
  /\ procs = <<>>

ResetNext ==
  \/ \E force \in BOOLEAN, jan \in BOOLEAN, s \in StrategyInputs, p \in PositionInputs,
        fl \in FlaggedInputs :
       ResetLeave(force, jan, s, p, fl, "none")
  \/ \E force \in BOOLEAN, jan \in BOOLEAN, s \in StrategyInputs, p \in PositionInputs,
        fl \in FlaggedInputs :
       PostReset(force, jan, s, p, fl)
  \/ \E jan \in BOOLEAN, fl \in FlaggedInputs : CronFire(jan, fl)

ResetSpec == ResetInit /\ [][ResetNext]_vars

\* ------------------------------------------- transactions of the handlers
\* The handlers that open a transaction on a queryRunner, whole, with the
\* calls each makes on the queryRunner in order (tx), the response it gives
\* and, for POST /, what becomes of the files uploaded with the call.
\*   fault: the store call that throws ("commit": commitTransaction throws)
\*   late:  whether the code after commitTransaction throws, and whether the
\*          rollbackTransaction that the catch then calls returns or throws
TxFaults == {"none", "positionStore", "userStore", "usedStore", "commit"}
LateInputs == {"none", "returns", "throws"}

\* what the store holds when the connection is released: the statements of a
\* committed transaction, nothing of a transaction rolled back, and either of
\* the two of a transaction that was released while still open
TxResult(tx, before, work) ==
  IF \E i \in 1..Len(tx) : tx[i] = "commit" THEN {work}
  ELSE IF \E i \in 1..Len(tx) : tx[i] = "rollback" THEN {before}
  ELSE {before, work}

TxCall(op, id, code, fault, tx, files, response) ==
  [op |-> op, id |-> id, ledger |-> "none", code |-> code, fault |-> fault,
   tx |-> tx, files |-> files, response |-> response]

\* POST /: the outcomes that leave the try by "return send...(res, ...)"
CreateReturns == {"unauthorized", "no_quota", "bad_time", "backdated"}

PostLeaveCode(userId, leaveType, body, durationType, today, fault, late) ==
  LET code == CreateCode(userId, leaveType, body, durationType, today, fault)
  IN IF code = "created" /\ fault = "commit" THEN "error"
     ELSE IF code = "created" /\ late # "none" THEN "error_after_commit"
     ELSE code

PostLeaveTx(code) ==
  IF code \in CreateReturns THEN <<"start", "release">>
  ELSE IF code = "created" THEN <<"start", "commit", "release">>
  ELSE IF code = "error_after_commit" THEN <<"start", "commit", "rollback", "release">>
  ELSE <<"start", "rollback", "release">>

\* the uploaded files: unlinked by the catch block, after its rollbackTransaction
PostLeaveFiles(code, nfiles, late) ==
  IF nfiles = 0 THEN "none"
  ELSE IF code \in CreateReturns \cup {"created"} THEN "kept"
  ELSE IF code = "error_after_commit" /\ late = "throws" THEN "kept"
  ELSE "removed"

PostLeaveResponse(code, late) ==
  IF code = "created" THEN "201"
  ELSE IF code = "unauthorized" THEN "401"
  ELSE IF code \in CreateReturns \cup {"quota_exceeded"} THEN "400"
  ELSE IF code = "error_after_commit" /\ late = "throws" THEN "none"
  ELSE "500"

PostLeave(userId, leaveType, body, durationType, today, nfiles, fault, late) ==
  LET code == PostLeaveCode(userId, leaveType, body, durationType, today, fault, late)
      stored == IF durationType = "hour" THEN body
                ELSE <<body[1], body[2], NoTime, NoTime>>
      saved == code \in {"created", "error_after_commit"}
  IN /\ FreeIds # {}
     /\ leaves' = IF saved
                    THEN [leaves EXCEPT ![NewId] = MkLeave(userId, leaveType, stored, "pending")]
                    ELSE leaves
     /\ last' = TxCall("create", IF saved THEN NewId ELSE 0, code, fault, PostLeaveTx(code),
                       PostLeaveFiles(code, nfiles, late), PostLeaveResponse(code, late))
     /\ rt' = Idle
     /\ UNCHANGED <<leaveUsed, consumed, procs>>

\* executeResetLogic and POST /reset: the outcome when a store call may throw
TxResetCode(force, isJanFirst, positionId, flagged, fault) ==
  LET code == ResetCode(force, isJanFirst, positionId, flagged, "none")
  IN IF code = "not_jan_first" THEN code
     ELSE IF fault = "positionStore" THEN "error"
     ELSE IF code \in {"position_not_found", "noop_positions"} THEN code
     ELSE IF fault = "userStore" THEN "error"
     ELSE IF code = "noop_users" THEN code
     ELSE IF fault \in {"usedStore", "commit"} THEN "error"
     ELSE "ok"

\* the LeaveUsed table as the transaction sees it before its end
TxResetWork(code, fault, used, userIds, strategy) ==
  IF code = "ok" \/ (code = "error" /\ fault = "commit")
    THEN executeResetStrategy(used, userIds, strategy)
    ELSE used

\* executeResetLogic whose catch block does not roll back
ResetLogicTxNoRollback(code, fault) ==
  IF code = "ok" THEN <<"start", "commit", "release">>
  ELSE IF code \in {"noop_positions", "noop_users"} THEN <<"start", "rollback", "release">>
  ELSE IF fault = "commit" THEN <<"start", "commit_failed", "release">>
  ELSE <<"start", "release">>

ResetLogicTx(code, fault) ==
  IF code = "ok" THEN <<"start", "commit", "release">>
  ELSE IF code = "error" /\ fault = "commit"
    THEN <<"start", "commit_failed", "rollback", "release">>
  ELSE <<"start", "rollback", "release">>

ResetLogic(force, isJanFirst, strategy, positionId, flagged, fault) ==
  LET code == TxResetCode(force, isJanFirst, positionId, flagged, fault)
      tx   == ResetLogicTx(code, fault)
  IN /\ leaveUsed' \in TxResult(tx, leaveUsed,
                                TxResetWork(code, fault, leaveUsed,
                                            ResetUsers(positionId, flagged), strategy))
     /\ last' = TxCall("reset", 0, code, fault, tx, "none",
                       IF code \in {"ok", "noop_positions", "noop_users"}
                         THEN "success" ELSE "throws")
     /\ rt' = Idle
     /\ UNCHANGED <<leaves, consumed, procs>>

PostResetTx(code, fault) ==
  IF code = "not_jan_first" THEN <<"start", "release">>
  ELSE IF code \in {"ok", "noop_positions", "noop_users"} THEN <<"start", "commit", "release">>
  ELSE IF code = "error" /\ fault = "commit"
    THEN <<"start", "commit_failed", "rollback", "release">>
  ELSE <<"start", "rollback", "release">>

PostResetTxn(force, isJanFirst, strategy, positionId, flagged, fault) ==
  LET code == TxResetCode(force, isJanFirst, positionId, flagged, fault)
      tx   == PostResetTx(code, fault)
  IN /\ leaveUsed' \in TxResult(tx, leaveUsed,
                                TxResetWork(code, fault, leaveUsed,
                                            ResetUsers(positionId, flagged), strategy))
     /\ last' = TxCall("reset_route", 0, code, fault, tx, "none",
                       IF code \in {"ok", "noop_positions", "noop_users"} THEN "200"
                       ELSE IF code = "not_jan_first" THEN "400"
                       ELSE IF code = "position_not_found" THEN "404"
                       ELSE "500")
     /\ rt' = Idle
     /\ UNCHANGED <<leaves, consumed, procs>>

\* POST /reset-by-users
ResetByUsersCode(userIds, fault) ==
  IF userIds = {} THEN "bad_users"
  ELSE IF fault \in {"usedStore", "commit"} THEN "error"
  ELSE "ok"

ResetByUsersTx(code, fault) ==
  IF code = "bad_users" THEN <<"start", "release">>
  ELSE IF code = "ok" THEN <<"start", "commit", "release">>
  ELSE IF fault = "commit" THEN <<"start", "commit_failed", "rollback", "release">>
  ELSE <<"start", "rollback", "release">>

ResetByUsers(userIds, strategy, fault) ==
  LET code == ResetByUsersCode(userIds, fault)
      tx   == ResetByUsersTx(code, fault)
  IN /\ leaveUsed' \in TxResult(tx, leaveUsed,
                                TxResetWork(code, fault, leaveUsed, userIds, strategy))
     /\ last' = TxCall("reset_by_users", 0, code, fault, tx, "none",
                       IF code = "ok" THEN "200"
                       ELSE IF code = "bad_users" THEN "400" ELSE "500")
     /\ rt' = Idle
     /\ UNCHANGED <<leaves, consumed, procs>>

TxRequestInputs == {<<"u1", "lt1">>, <<"u2", "lt1">>, <<NoUser, "lt1">>}
TxBodies == LeaveInputs \cup {<<2, MaxDate, 780, 780>>}
TxPositionInputs == {NoPosition, "p1", "p9"}

TxInit ==
  /\ leaves = [i \in ReqIds |-> NoLeave]
  /\ \E r \in ResetRows :
       leaveUsed = [k \in Users \X LeaveTypeIds |->
                      IF k[2] = "lt1" THEN <<r>> ELSE <<>>]
  /\ last = Call("init", 0, "none", "")
  /\ rt = Idle
  /\ consumed = [i \in ReqIds |-> 0]
  /\ procs = <<>>

TxNext ==
  \/ \E ut \in TxRequestInputs, b \in TxBodies, dt \in {"day", "hour"}, today \in {1, MaxDate + 1},
        n \in {0, 1}, f \in {"none", "leaveStore", "commit"}, late \in LateInputs :
       PostLeave(ut[1], ut[2], b, dt, today, n, f, late)
  \/ \E force \in BOOLEAN, jan \in BOOLEAN, s \in {"zero", "delete"}, p \in TxPositionInputs,
        fl \in FlaggedInputs, f \in TxFaults :
       ResetLogic(force, jan, s, p, fl, f)
  \/ \E force \in BOOLEAN, jan \in BOOLEAN, s \in {"zero", "delete"}, p \in TxPositionInputs,
        fl \in FlaggedInputs, f \in TxFaults :
       PostResetTxn(force, jan, s, p, fl, f)
  \/ \E us \in SUBSET Users, s \in {"zero", "delete"}, f \in TxFaults :
       ResetByUsers(us, s, f)

TxSpec == TxInit /\ [][TxNext]_vars

\* ------------------------------------- the normalizer over stored fields
\* calculateDurationDetails applied to a stored request whose date and time
\* fields are drawn from DurationDates and DurationTimes: the result of the
\* call is kept in the record of the call.
\*   times: none, 00:00, 02:00, 09:00, 13:00, 17:30, 22:00
DurationTimes == {NoTime, 0, 120, 540, 780, 1050, 1320}
DurationDates == {NoDate, BadDate} \cup 1..(MaxDate + 1)

DurationInit ==
  /\ \E sd \in DurationDates, ed \in DurationDates, st \in DurationTimes, et \in DurationTimes :
       leaves = [i \in ReqIds |->
                   IF i = 1 THEN MkLeave("u1", "lt1", <<sd, ed, st, et>>, "pending")
                   ELSE NoLeave]
  /\ leaveUsed = [k \in Users \X LeaveTypeIds |-> <<>>]
  /\ last = Call("init", 0, "none", "")
  /\ rt = Idle
  /\ consumed = [i \in ReqIds |-> 0]
  /\ procs = <<>>

Normalize(id) ==
  /\ leaves[id] # NoLeave
  /\ last' = [op |-> "duration", id |-> id, ledger |-> "none", code |-> "ok",
              details |-> calculateDurationDetails(leaves[id])]
  /\ UNCHANGED <<leaves, leaveUsed, rt, consumed, procs>>

DurationNext == \E id \in ReqIds : Normalize(id)

DurationSpec == DurationInit /\ [][DurationNext]_vars

\* ------------------------------------------ POST / over a range of usage
\* The creation-time quota check applied to recorded usage of any size: the
\* LeaveUsed table starts with one record of u1 drawn from UsageInputs (or
\* with none), and requests of every leave type are created and deleted.
UsageInputs ==
  {[days |-> d, hour |-> h] : d \in 0..MaxQuotaDays, h \in {0, 3, 4, workingHoursPerDay - 1}}

\* request bodies: the bodies of LeaveInputs, 09:00-18:00 (9 hours, one
\* working day and one hour) and 13:00-17:30 (4.5 hours)
QuotaBodies ==
  LeaveInputs \cup {<<2, 2, 540, 1080>>, <<2, 2, 780, 1050>>}

\* (employee, leave type): with an entitlement, without one, and the exempt
\* type with and without one
QuotaRequestInputs == {<<"u1", "lt3">>, <<"u2", "lt3">>, <<"u1", "lt2">>, <<"u2", "lt2">>}

QuotaInit ==
  /\ leaves = [i \in ReqIds |-> NoLeave]
  /\ \E t \in {"lt2", "lt3"}, rows \in {<<>>} \cup {<<r>> : r \in UsageInputs} :
       leaveUsed = [k \in Users \X LeaveTypeIds |-> IF k = <<"u1", t>> THEN rows ELSE <<>>]
  /\ last = Call("init", 0, "none", "")
  /\ rt = Idle
  /\ consumed = [i \in ReqIds |-> 0]
  /\ procs = <<>>

QuotaNext ==
  \/ \E ut \in QuotaRequestInputs, b \in QuotaBodies, dt \in {"day", "hour"} :
       CreateLeave(ut[1], ut[2], b, dt, 1, "none")
  \/ \E id \in ReqIds : DeleteLeave(id, "none")

QuotaSpec == QuotaInit /\ [][QuotaNext]_vars

\* ------------------------------------- PUT /:id/status, one await at a time
\* Handlers of concurrent requests interleave at their awaits.  A handler in
\* flight holds the LeaveRequest entity it read (leave) and, inside
\* updateLeaveUsed, the LeaveUsed entity it read (rec, with its row number).
Procs == {"h1", "h2"}
IdleProc == [pc |-> "idle", id |-> 0, leave |-> NoLeave, rec |-> NoRow, row |-> 0]

ConcInit ==
  /\ leaves \in [ReqIds -> {MkLeave(ut[1], ut[2], b, "pending") :
                              ut \in RequestInputs, b \in LeaveInputs}]
  /\ leaveUsed \in {[k \in Users \X LeaveTypeIds |-> <<>>],
                    [k \in Users \X LeaveTypeIds |->
                       IF k \in RequestInputs THEN <<[days |-> 0, hour |-> 0]>> ELSE <<>>]}
  /\ last = Call("init", 0, "none", "")
  /\ rt = Idle
  /\ consumed = [i \in ReqIds |-> 0]
  /\ procs = [p \in Procs |-> IdleProc]

\* await leaveRepo.findOneBy({ id }) and the checks that follow it
StatusFind(p, id, status, approverId) ==
  LET code == StatusCode(id, status, approverId, "none")
  IN /\ procs[p].pc = "idle"
     /\ IF code = "ok"
          THEN /\ procs' = [procs EXCEPT ![p] =
                              [pc |-> IF status = "approved" THEN "findUsed" ELSE "saveLeave",
                               id |-> id,
                               leave |-> [leaves[id] EXCEPT !.status = status],
                               rec |-> NoRow, row |-> 0]]
               /\ UNCHANGED last
          ELSE /\ last' = Call(IF status = "approved" THEN "approve" ELSE "reject",
                               id, "none", code)
               /\ UNCHANGED procs
     /\ UNCHANGED <<leaves, leaveUsed, rt, consumed>>

\* updateLeaveUsed up to await leaveUsedRepo.findOne(...)
StatusFindUsed(p) ==
  LET leave == procs[p].leave
      d     == calculateDurationDetails(leave)
      rows  == leaveUsed[<<leave.Repid, resolveLeaveType(leave.leaveType, "none")>>]
  IN /\ procs[p].pc = "findUsed"
     /\ procs' = [procs EXCEPT ![p] =
                    IF d.calculatedDays = 0 /\ d.calculatedHours = 0
                      THEN [@ EXCEPT !.pc = "saveLeave"]
                      ELSE [@ EXCEPT !.pc = "saveUsed",
                                     !.rec = IF rows = <<>> THEN NoRow ELSE rows[1],
                                     !.row = IF rows = <<>> THEN 0 ELSE 1]]
     /\ UNCHANGED <<leaves, leaveUsed, last, rt, consumed>>

\* await leaveUsedRepo.save(existingRecord) / save(newRecord)
StatusSaveUsed(p) ==
  LET leave == procs[p].leave
      d     == calculateDurationDetails(leave)
      key   == <<leave.Repid, leave.leaveType>>
      rec   == procs[p].rec
      used1 == IF rec # NoRow
                 THEN [leaveUsed EXCEPT ![key][procs[p].row] =
                         [days |-> rec.days + d.calculatedDays,
                          hour |-> rec.hour + d.calculatedHours]]
                 ELSE [leaveUsed EXCEPT ![key] =
                         Append(@, [days |-> d.calculatedDays, hour |-> d.calculatedHours])]
  IN /\ procs[p].pc = "saveUsed"
     /\ leaveUsed' = used1
     /\ consumed' = [consumed EXCEPT ![procs[p].id] = @ + 1]
     /\ procs' = [procs EXCEPT ![p].pc = "saveLeave"]
     /\ UNCHANGED <<leaves, last, rt>>

\* await leaveUsedRepo.save(newRecord) refused by the store: a record of the
\* key was inserted since the findOne.  The LeaveUsed entity is not part of
\* src/, so whether the table has a unique key on (user_id, leave_type_id) is
\* open: the insert either succeeds (StatusSaveUsed) or throws here, and the
\* catch of updateLeaveUsed logs the error and returns.
StatusSaveUsedRefused(p) ==
  LET leave == procs[p].leave
      key   == <<leave.Repid, leave.leaveType>>
  IN /\ procs[p].pc = "saveUsed"
     /\ procs[p].rec = NoRow
     /\ leaveUsed[key] # <<>>
     /\ procs' = [procs EXCEPT ![p].pc = "saveLeave"]
     /\ UNCHANGED <<leaves, leaveUsed, last, rt, consumed>>

\* await leaveRepo.save(leave) and the response
StatusSaveLeave(p) ==
  LET leave == procs[p].leave
  IN /\ procs[p].pc = "saveLeave"
     /\ leaves' = [leaves EXCEPT ![procs[p].id].status = leave.status]
     /\ last' = Call(IF leave.status = "approved" THEN "approve" ELSE "reject",
                     procs[p].id,
                     IF leave.status = "approved" THEN "applied" ELSE "none", "ok")
     /\ procs' = [procs EXCEPT ![p] = IdleProc]
     /\ UNCHANGED <<leaveUsed, rt, consumed>>

ConcNext ==
  \/ \E p \in Procs, id \in ReqIds, st \in {"approved", "rejected"}, a \in Users :
       StatusFind(p, id, st, a)
  \/ \E p \in Procs : StatusFindUsed(p)
  \/ \E p \in Procs : StatusSaveUsed(p)
  \/ \E p \in Procs : StatusSaveUsedRefused(p)
  \/ \E p \in Procs : StatusSaveLeave(p)

ConcSpec == ConcInit /\ [][ConcNext]_vars

\* ------------------------------------------------------------ properties
AllRows(used) == UNION {{used[k][i] : i \in 1..Len(used[k])} : k \in DOMAIN used}

\* the LeaveUsed values of a key, an absent record counting as zero
RowOrZero(rows) == IF rows = <<>> THEN [days |-> 0, hour |-> 0] ELSE rows[1]

\* the request row a step is about, read before the step
StatusCall(id) == last'.op \in {"approve", "reject", "status"} /\ last'.id = id

\* what the claims expect of consume and revert, written from the duration
Consumed(used, leave) ==
  LET d   == calculateDurationDetails(leave)
      key == <<leave.Repid, leave.leaveType>>
      old == RowOrZero(used[key])
  IN [used EXCEPT ![key] = <<[days |-> old.days + d.calculatedDays,
                              hour |-> old.hour + d.calculatedHours]>>]

Reverted(used, leave) ==
  LET d   == calculateDurationDetails(leave)
      key == <<leave.Repid, leave.leaveType>>
  IN IF used[key] = <<>> THEN used
     ELSE [used EXCEPT ![key] = <<[days |-> Max(0, used[key][1].days - d.calculatedDays),
                                   hour |-> Max(0, used[key][1].hour - d.calculatedHours)]>>]

\* C1: with the entitlement constant, days*H + hour <= quota*H for every
\* (employee, non-exempt leave type) that has an entitlement, because every
\* approval is gated by the quota check.
C1_QuotaNeverExceeded ==
  \A u \in Users, t \in LeaveTypeIds :
    (leave_type_en[t] # "Emergency" /\ LeaveQuota[UserPosition[u], t] # NoQuota)
      => UsedUnits(leaveUsed, u, t) <= LeaveQuota[UserPosition[u], t] * workingHoursPerDay

\* C2: every LeaveUsed record has 0 <= hour < workingHoursPerDay after every
\* consume and every revert.
C2_HoursNormalized ==
  \A r \in AllRows(leaveUsed) : 0 <= r.hour /\ r.hour < workingHoursPerDay

\* C3: an approve call that passed the checks ends in one of two outcomes:
\* the request is approved and its duration has been added to LeaveUsed, or
\* the request is not approved and LeaveUsed is unchanged.
C3_ApprovalAtomic ==
  [][\A id \in ReqIds :
       (last'.op = "approve" /\ last'.id = id /\ last'.code \in {"ok", "error"})
         => \/ leaves'[id].status = "approved" /\ leaveUsed' = Consumed(leaveUsed, leaves[id])
            \/ leaves'[id].status # "approved" /\ leaveUsed' = leaveUsed]_vars

C5_NoOverCommit ==
  (\A p \in Procs : procs[p].pc = "idle")
    => \A ut \in RequestInputs :
         LeaveQuota[UserPosition[ut[1]], ut[2]] # NoQuota
           => UsedUnits(leaveUsed, ut[1], ut[2])
                <= LeaveQuota[UserPosition[ut[1]], ut[2]] * workingHoursPerDay

\* C6: days >= 0 and hour >= 0 for every LeaveUsed record in every reachable state.
C6_NonNegative ==
  \A r \in AllRows(leaveUsed) : r.days >= 0 /\ r.hour >= 0

\* C6 witness: a revert whose recomputed duration exceeded the recorded usage
C6_Witness ==
  /\ last.op = "delete" /\ last.ledger = "clamped" /\ last.code = "ok"
  /\ \E r \in AllRows(leaveUsed) : r.days = 0 \/ r.hour = 0

\* C7 (as stated): approving a request and then deleting it returns the
\* LeaveUsed record of (employee, leave type) to exactly its prior state.
C7_RoundTripExact ==
  rt.phase = "reverted" => leaveUsed[rt.key] = rt.before

\* C7 (amended): approving a request and then deleting it returns the days and
\* hour of (employee, leave type) to their prior values, an absent record
\* counting as days = 0, hour = 0; a record created by the consume remains.
C7_RoundTripValues ==
  rt.phase = "reverted" =>
    /\ RowOrZero(leaveUsed[rt.key]) = RowOrZero(rt.before)
    /\ Len(leaveUsed[rt.key]) = 1

\* C7 witness: a round trip over an existing record with usage
C7_Witness ==
  /\ rt.phase = "reverted" /\ rt.before # <<>>
  /\ rt.before[1].hour > 0 /\ last.op = "delete" /\ last.ledger = "applied"

\* C8: creating a pending (or rejected) request, rejecting a pending request
\* and deleting a pending or rejected request leave LeaveUsed unchanged.
C8_NeverApprovedNoLedger ==
  [][\A id \in ReqIds \cup {0} :
       (/\ last'.id = id
        /\ \/ last'.op = "create"
           \/ last'.op = "admin" /\ last'.ledger = "none"
           \/ last'.op = "reject"
           \/ /\ last'.op = "delete" /\ id # 0
              /\ leaves[id] # NoLeave /\ leaves[id].status \in {"pending", "rejected"})
         => leaveUsed' = leaveUsed]_vars

\* C8 witness: a rejected request was deleted while usage is recorded
C8_Witness ==
  /\ last.op = "delete" /\ last.code = "ok" /\ last.ledger = "none"
  /\ \E r \in AllRows(leaveUsed) : r.days > 0 \/ r.hour > 0

C10_DeleteReverts ==
  [][\A id \in ReqIds :
       (last'.op = "delete" /\ last'.id = id /\ leaves[id] # NoLeave
        /\ leaves[id].status = "approved")
         => /\ leaveUsed' = Reverted(leaveUsed, leaves[id])
            /\ leaves'[id] = NoLeave]_vars

\* C10 witness: an approved request was deleted and its duration subtracted,
\* the hours of another approved request remaining in the record
C10_Witness ==
  /\ last.op = "delete" /\ last.ledger = "applied" /\ last.code = "ok"
  /\ leaves[last.id] = NoLeave
  /\ \E r \in AllRows(leaveUsed) : r.hour > 0

\* C11: at most one LeaveUsed record exists per (user_id, leave_type_id) in
\* every reachable state, whatever the interleaving of concurrent approvals,
\* and a key that has been consumed against has its record.
C11_OneRecordPerKey ==
  /\ \A k \in DOMAIN leaveUsed : Len(leaveUsed[k]) <= 1
  /\ \A id \in ReqIds :
       (consumed[id] > 0 /\ leaves[id] # NoLeave)
         => Len(leaveUsed[<<leaves[id].Repid, leaves[id].leaveType>>]) >= 1

\* C12: a status update (approve or reject) whose actor is the submitter of
\* the request is refused as a self-approval and changes neither the request
\* table nor LeaveUsed.
C12_SelfApprovalRefused ==
  [][\A id \in ReqIds, st \in {"approved", "rejected"} :
       (leaves[id] # NoLeave /\ UpdateStatus(id, st, leaves[id].Repid, "none"))
         => /\ last'.code = "self_approval"
            /\ leaves' = leaves
            /\ leaveUsed' = leaveUsed]_vars

\* C12 witness: the submitter's approval of their own pending request was refused
C12_Witness ==
  /\ last.op = "approve" /\ last.code = "self_approval"
  /\ leaves[last.id] # NoLeave /\ leaves[last.id].status = "pending"

\* C13: for a non-exempt leave type with an entitlement, the quota check of a
\* creation admits the request iff usedDays*H + usedHours + reqDays*H +
\* reqHours <= quotaDays*H (compared in minutes, reqHours being the elapsed
\* time of an hour request and reqDays the inclusive day count of a day
\* request); the boundary is inclusive.
C13_QuotaCheckBoundary ==
  [][\A ut \in QuotaRequestInputs, b \in QuotaBodies, dt \in {"day", "hour"} :
       (/\ CreateLeave(ut[1], ut[2], b, dt, 1, "none")
        /\ leave_type_en[ut[2]] # "Emergency"
        /\ LeaveQuota[UserPosition[ut[1]], ut[2]] # NoQuota)
         => LET row == RowOrZero(leaveUsed[ut])
                H == workingHoursPerDay
                reqMinutes == IF dt = "hour" /\ b[3] # NoTime
                                THEN (b[4] - b[3]) % (24 * 60)
                                ELSE (b[2] - b[1] + 1) * H * 60
            IN (last'.code # "quota_exceeded")
                 <=> (row.days * H + row.hour) * 60 + reqMinutes
                       <= LeaveQuota[UserPosition[ut[1]], ut[2]] * H * 60]_vars

\* C13 witness: with the entitlement of MaxQuotaDays days and usage one day
\* below it, a request of exactly one day was admitted and saved
C13_Witness ==
  /\ last.op = "create" /\ last.code = "created"
  /\ leaves[last.id].leaveType = "lt3" /\ leaves[last.id].startTime = NoTime
  /\ leaves[last.id].endDate = leaves[last.id].startDate
  /\ leaveUsed[<<"u1", "lt3">>] = <<[days |-> MaxQuotaDays - 1, hour |-> 0]>>

\* C14: a creation for a non-exempt leave type whose position has no
\* LeaveQuota row is denied by the quota check as having no quota, and no
\* leave request is persisted.
C14_NoQuotaRowDenied ==
  [][\A ut \in QuotaRequestInputs, b \in QuotaBodies, dt \in {"day", "hour"} :
       (/\ CreateLeave(ut[1], ut[2], b, dt, 1, "none")
        /\ leave_type_en[ut[2]] # "Emergency"
        /\ LeaveQuota[UserPosition[ut[1]], ut[2]] = NoQuota)
         => /\ last'.code = "no_quota"
            /\ leaves' = leaves
            /\ leaveUsed' = leaveUsed]_vars

\* C14 witness: a creation was denied for the missing row while a request slot
\* was free
C14_Witness ==
  /\ last.op = "create" /\ last.code = "no_quota"
  /\ FreeIds # {}

\* C15: a creation under the exempt leave type (Emergency) is admitted by the
\* quota check whatever the usage and the entitlement: also when the position
\* has no LeaveQuota row and when the usage equals or exceeds the entitlement.
\* The request bodies are inside the working hours and not backdated, so an
\* admitted request is saved as pending.
C15_ExemptAdmitted ==
  [][\A ut \in QuotaRequestInputs, b \in QuotaBodies, dt \in {"day", "hour"} :
       (/\ CreateLeave(ut[1], ut[2], b, dt, 1, "none")
        /\ leave_type_en[ut[2]] = "Emergency")
         => /\ last'.code = "created"
            /\ leaves'[last'.id] = MkLeave(ut[1], ut[2],
                                           IF dt = "hour" THEN b ELSE <<b[1], b[2], NoTime, NoTime>>,
                                           "pending")]_vars

\* C15 witness: Emergency requests were admitted for an employee whose usage
\* is at or above the entitlement and for an employee without an entitlement
C15_Witness ==
  /\ last.op = "create" /\ last.code = "created"
  /\ \A i \in ReqIds : leaves[i] # NoLeave /\ leaves[i].leaveType = "lt2"
  /\ \E i \in ReqIds : leaves[i].Repid = "u2" /\ LeaveQuota[UserPosition["u2"], "lt2"] = NoQuota
  /\ \E i \in ReqIds : leaves[i].Repid = "u1"
  /\ UsedUnits(leaveUsed, "u1", "lt2") >= LeaveQuota[UserPosition["u1"], "lt2"] * workingHoursPerDay

\* the positions a reset call names: the specified one, or the flagged ones
NamedPositions(positionId, flagged) ==
  IF positionId = NoPosition THEN flagged ELSE {positionId}

\* a step is a reset call, through executeResetLogic or POST /reset
ResetCall(force, isJanFirst, strategy, positionId, flagged) ==
  \/ ResetLeave(force, isJanFirst, strategy, positionId, flagged, "none")
  \/ PostReset(force, isJanFirst, strategy, positionId, flagged)

\* C16: a reset without force on a date other than 1 January is refused and
\* changes no LeaveUsed record; with force it is not refused for the date,
\* whatever the date, and resets the records of the employees in scope.
C16_ResetDateGuard ==
  [][\A s \in {"zero", "delete"}, p \in PositionInputs, fl \in FlaggedInputs :
       /\ ResetCall(FALSE, FALSE, s, p, fl)
            => last'.code = "not_jan_first" /\ leaveUsed' = leaveUsed
       /\ \A jan \in BOOLEAN :
            ResetCall(TRUE, jan, s, p, fl)
              => /\ last'.code # "not_jan_first"
                 /\ (\E u \in Users : UserPosition[u] \in NamedPositions(p, fl))
                      => /\ last'.code = "ok"
                         /\ \A u \in Users, t \in LeaveTypeIds :
                              UserPosition[u] \in NamedPositions(p, fl)
                                => UsedUnits(leaveUsed', u, t) = 0]_vars

\* C16 witness: a reset was refused for the date while usage is recorded
C16_Witness ==
  /\ last.op \in {"reset", "reset_route"} /\ last.code = "not_jan_first"
  /\ \E r \in AllRows(leaveUsed) : r.days > 0

\* C17: after a zero-strategy reset every LeaveUsed record of an employee whose
\* position is in scope still exists with days = 0 and hour = 0, and every
\* record of an employee outside the scope is unchanged.  (No modelled
\* operation writes the LeaveQuota rows.)
C17_ZeroResetFrame ==
  [][\A force \in BOOLEAN, jan \in BOOLEAN, p \in PositionInputs, fl \in FlaggedInputs :
       (last'.code = "ok" /\ ResetCall(force, jan, "zero", p, fl))
         => \A k \in DOMAIN leaveUsed :
              IF UserPosition[k[1]] \in NamedPositions(p, fl)
                THEN /\ Len(leaveUsed'[k]) = Len(leaveUsed[k])
                     /\ \A i \in 1..Len(leaveUsed'[k]) :
                          leaveUsed'[k][i] = [days |-> 0, hour |-> 0]
                ELSE leaveUsed'[k] = leaveUsed[k]]_vars

\* C17 witness: after a reset the records of u1 (in scope) exist with zeros
\* and a record of u2 (outside the scope) holds its usage
C17_Witness ==
  /\ last.op \in {"reset", "reset_route"} /\ last.code = "ok"
  /\ leaveUsed[<<"u1", "lt1">>] = <<[days |-> 0, hour |-> 0]>>
  /\ leaveUsed[<<"u2", "lt1">>] = <<[days |-> 1, hour |-> 5]>>

\* C18 (as stated): a reset that passes the date guard and whose scope, a
\* single specified position or the flagged positions, matches no position or
\* no employee is a successful no-op that changes no LeaveUsed record.
C18_EmptyScopeNoOp ==
  [][\A force \in BOOLEAN, jan \in BOOLEAN, s \in {"zero", "delete"},
        p \in PositionInputs, fl \in FlaggedInputs :
       (/\ force \/ jan
        /\ ~\E u \in Users : UserPosition[u] \in NamedPositions(p, fl) \cap Positions
        /\ ResetCall(force, jan, s, p, fl))
         => /\ last'.code \in {"noop_positions", "noop_users"}
            /\ leaveUsed' = leaveUsed]_vars

\* C18 (amended): the no-op covers the flagged scope without positions or
\* without employees and a specified existing position without employees; a
\* specified position that does not exist is an error, and changes nothing.
C18_EmptyScopeNoOpOrNotFound ==
  [][\A force \in BOOLEAN, jan \in BOOLEAN, s \in {"zero", "delete"},
        p \in PositionInputs, fl \in FlaggedInputs :
       (/\ force \/ jan
        /\ ~\E u \in Users : UserPosition[u] \in NamedPositions(p, fl) \cap Positions
        /\ ResetCall(force, jan, s, p, fl))
         => /\ leaveUsed' = leaveUsed
            /\ IF p # NoPosition /\ p \notin Positions
                 THEN last'.code = "position_not_found"
                 ELSE last'.code \in {"noop_positions", "noop_users"}]_vars

\* C18 witness: a reset of a position without employees ended as a no-op
\* while usage is recorded
C18_Witness ==
  /\ last.op \in {"reset", "reset_route"} /\ last.code = "noop_users"
  /\ \E r \in AllRows(leaveUsed) : r.hour > 0

\* C19: whenever the yearly cron job fires, its reset passes the date guard
\* and is applied: afterwards the LeaveUsed records of all employees in the
\* positions flagged for automatic reset are zero.
C19_CronResetApplied ==
  [][\A jan \in BOOLEAN, fl \in FlaggedInputs :
       CronFire(jan, fl)
         => /\ last'.code \in {"ok", "noop_positions", "noop_users"}
            /\ \A u \in Users, t \in LeaveTypeIds :
                 UserPosition[u] \in fl => UsedUnits(leaveUsed', u, t) = 0]_vars

\* C20: the status of every LeaveRequest is one of pending, approved, rejected
\* in every reachable state.
C20_StatusDomain ==
  \A i \in ReqIds : leaves[i] = NoLeave \/ leaves[i].status \in Statuses

\* C21: for a request with a start time and an end time the normalizer
\* returns the elapsed time (end - start) mod 24h, never negative, and the
\* request is hour-denominated.
C21_ElapsedWraps ==
  (last.op = "duration"
   /\ leaves[last.id].startTime # NoTime /\ leaves[last.id].endTime # NoTime)
    => /\ last.details.durationType = "hour"
       /\ last.details.durationMinutes
            = (leaves[last.id].endTime - leaves[last.id].startTime) % (24 * 60)
       /\ last.details.durationMinutes >= 0

\* C21 witness: startTime 22:00, endTime 02:00 was normalized to 4 hours
C21_Witness ==
  /\ last.op = "duration"
  /\ leaves[last.id].startTime = 1320 /\ leaves[last.id].endTime = 120
  /\ last.details.durationMinutes = 4 * 60

\* C22: for any stored request fields calculateDurationDetails returns
\* calculatedDays >= 0 and 0 <= calculatedHours < workingHoursPerDay, a negative
\* or not-a-number day count is clamped to 0, and
\* calculatedDays * workingHoursPerDay + calculatedHours equals the raw duration
\* in hours (compared here in minutes: the raw duration of an hour request is
\* its elapsed time, that of a day request its day count).
C22_NormalizedExact ==
  last.op = "duration" =>
    LET leave == leaves[last.id]
        d     == last.details
        days  == calculateDaysBetween(leave.startDate, leave.endDate)
    IN /\ d.calculatedDays >= 0
       /\ d.calculatedHours >= 0 /\ d.calculatedHours < workingHoursPerDay
       /\ (d.durationType = "day" /\ (days < 0 \/ days = NaN)) => d.calculatedDays = 0
       /\ (d.calculatedDays * workingHoursPerDay + d.calculatedHours) * 60
            = IF d.durationType = "hour" THEN d.durationMinutes
              ELSE d.duration * workingHoursPerDay * 60

\* the ledger before any consumption
NoUsage == [k \in Users \X LeaveTypeIds |-> <<>>]

\* C23: when the concurrent approvals of two different requests of one employee
\* and leave type have both completed, each having consumed once, the one
\* LeaveUsed record of the key equals the result of applying both approvals in
\* some serial order: no update is lost.
C23_NoLostUpdate ==
  (/\ \A p \in Procs : procs[p].pc = "idle"
   /\ \A id \in ReqIds : leaves[id].status = "approved" /\ consumed[id] = 1
   /\ leaves[1].Repid = leaves[2].Repid /\ leaves[1].leaveType = leaves[2].leaveType
   /\ Len(leaveUsed[<<leaves[1].Repid, leaves[1].leaveType>>]) = 1)
    => leaveUsed \in {Consumed(Consumed(NoUsage, leaves[1]), leaves[2]),
                      Consumed(Consumed(NoUsage, leaves[2]), leaves[1])}

\* C24: when the concurrent status updates approving one pending request have
\* all completed (the other request untouched), the request was consumed by at
\* most one of them and its normalized duration is in LeaveUsed exactly once.
C24_ConsumedOnce ==
  \A id \in ReqIds :
    (/\ \A p \in Procs : procs[p].pc = "idle"
     /\ leaves[id].status = "approved"
     /\ \A other \in ReqIds \ {id} : leaves[other].status = "pending" /\ consumed[other] = 0)
      => /\ consumed[id] = 1
         /\ leaveUsed = Consumed(NoUsage, leaves[id])

\* the normalized durations, in hours, of the approved requests of (u, t),
\* computed from the fields stored now
ApprovedUnits(ls, u, t) ==
  LET sum[S \in SUBSET ReqIds] ==
        IF S = {} THEN 0
        ELSE LET i == CHOOSE i \in S : TRUE
                 d == calculateDurationDetails(ls[i])
             IN (IF ls[i] # NoLeave /\ ls[i].status = "approved"
                    /\ ls[i].Repid = u /\ ls[i].leaveType = t
                   THEN d.calculatedDays * workingHoursPerDay + d.calculatedHours
                   ELSE 0) + sum[S \ {i}]
  IN sum[ReqIds]

LedgerConsistent(ls, used) ==
  \A k \in Users \X LeaveTypeIds : UsedUnits(used, k[1], k[2]) = ApprovedUnits(ls, k[1], k[2])

\* C25: every create, edit, approve, reject and delete (every operation but a
\* reset) taken in a state where, for every (employee, leave type), the
\* LeaveUsed total days*H + hour equals the sum of the normalized durations of
\* the approved requests as stored, leads to a state where it does again.
C25_LedgerConsistent ==
  [][(last'.op # "reset" /\ LedgerConsistent(leaves, leaveUsed))
       => LedgerConsistent(leaves', leaveUsed')]_vars

\* C26: when POST / fails or is refused, on any path, no LeaveRequest row is
\* persisted and the files uploaded with the call are removed; when a row is
\* persisted the call reports success and the files are kept.
C26_CreateAllOrNothing ==
  last.op = "create"
    => /\ last.code # "created"
            => /\ last.id = 0
               /\ last.response # "201"
               /\ last.files \in {"none", "removed"}
       /\ last.id # 0
            => /\ leaves[last.id] # NoLeave
               /\ last.response = "201"
               /\ last.files \in {"none", "kept"}

\* the calls on a queryRunner start a transaction, end it exactly once (by a
\* commit that succeeds, or by a rollback) and then release the connection
EndedOnce(tx) ==
  /\ tx[1] = "start"
  /\ tx[Len(tx)] = "release"
  /\ Cardinality({i \in 1..Len(tx) : tx[i] \in {"commit", "rollback"}}) = 1

\* C27: every transaction started by POST /, POST /reset, POST /reset-by-users
\* or executeResetLogic is ended exactly once, by commit or by rollback, on
\* every path, before its connection is released, and is never rolled back
\* after it has been committed.
C27_TransactionEndedOnce ==
  last.op \in {"create", "reset", "reset_route", "reset_by_users"}
    => EndedOnce(last.tx)

\* C28: when a step of executeResetLogic or POST /reset fails (the position
\* lookup, the user lookup, the update or delete of LeaveUsed, the commit),
\* the transaction is rolled back and not committed, no LeaveUsed record is
\* changed, and the failure is reported to the caller (the error thrown on, or
\* a 500 response).
C28_ResetFailureRollsBack ==
  [][(last'.op \in {"reset", "reset_route"} /\ last'.code = "error")
       => /\ \E i \in 1..Len(last'.tx) : last'.tx[i] = "rollback"
          /\ \A i \in 1..Len(last'.tx) : last'.tx[i] # "commit"
          /\ leaveUsed' = leaveUsed
          /\ last'.response = IF last'.op = "reset" THEN "throws" ELSE "500"]_vars

\* C28 witness: the update of LeaveUsed of a reset failed while usage is recorded
C28_Witness ==
  /\ last.op \in {"reset", "reset_route"} /\ last.code = "error"
  /\ last.fault \in {"usedStore", "commit"}
  /\ \E r \in AllRows(leaveUsed) : r.days > 0

\* C29: for every request that the quota check of POST / admits, the duration that the
\* check charged (reqDays * H + reqHours, here in minutes) equals the
\* normalized duration that updateLeaveUsed adds on approval and the delete
\* handler subtracts on revert, computed from the saved fields.
C29_ChargeEqualsConsumption ==
  (last.op = "create" /\ last.code = "created"
   /\ leave_type_en[leaves[last.id].leaveType] # "Emergency")
    => LET leave == leaves[last.id]
           d     == calculateDurationDetails(leave)
           body  == <<leave.startDate, leave.endDate, leave.startTime, leave.endTime>>
           durationType == IF leave.startTime # NoTime THEN "hour" ELSE "day"
       IN RequestMinutes(body, durationType)
            = (d.calculatedDays * workingHoursPerDay + d.calculatedHours) * 60

\* C30: a reset with strategy delete removes every LeaveUsed row of the
\* employees in scope and leaves the rows of the others untouched; a reset
\* with the strategy omitted applies zero: the rows of the employees in scope
\* are kept, with days = 0 and hour = 0, and the others are untouched.
C30_StrategySelectable ==
  [][\A force \in BOOLEAN, jan \in BOOLEAN, p \in PositionInputs, fl \in FlaggedInputs :
       /\ (last'.code = "ok" /\ ResetCall(force, jan, "delete", p, fl))
            => \A k \in DOMAIN leaveUsed :
                 IF UserPosition[k[1]] \in NamedPositions(p, fl)
                   THEN leaveUsed'[k] = <<>>
                   ELSE leaveUsed'[k] = leaveUsed[k]
       /\ (last'.code = "ok" /\ ResetCall(force, jan, NoStrategy, p, fl))
            => \A k \in DOMAIN leaveUsed :
                 IF UserPosition[k[1]] \in NamedPositions(p, fl)
                   THEN /\ Len(leaveUsed'[k]) = Len(leaveUsed[k])
                        /\ \A i \in 1..Len(leaveUsed'[k]) :
                             leaveUsed'[k][i] = [days |-> 0, hour |-> 0]
                   ELSE leaveUsed'[k] = leaveUsed[k]]_vars

\* C30 witness: after a reset with strategy delete u1 (in scope) has no
\* record and the record of u2 (outside the scope) holds its usage
C30_Witness ==
  /\ last.op \in {"reset", "reset_route"} /\ last.code = "ok" /\ last.ledger = "delete"
  /\ \A t \in LeaveTypeIds : leaveUsed[<<"u1", t>>] = <<>>
  /\ leaveUsed[<<"u2", "lt1">>] = <<[days |-> 1, hour |-> 5]>>

TypeOK ==
  /\ \A i \in ReqIds : leaves[i] = NoLeave \/ leaves[i].status \in AdminStatusInputs
  /\ \A k \in DOMAIN leaveUsed : Len(leaveUsed[k]) <= 1

====
